---- MODULE Spec2Model ----
(***************************************************************************)
(* Model of the website testing automation tool: TestRunner.runTests, the  *)
(* BrowserManager session it owns, and the four phase testers it calls.    *)
(* One run of runTests is a sequence of steps (pc); every awaited call to  *)
(* the browser driver or the report generator may succeed or throw.        *)
(* Writes to the log and directory creation are a side channel and are not *)
(* part of the state.                                                      *)
(* Spec is one run of runTests.  ProbeSpec is one direct call of a tester,  *)
(* of calculateScore or of the test command up to the construction of the  *)
(* testers, EngineSpec successive calls of the AccessibilityTester on one  *)
(* loaded page, SessionSpec a BrowserManager driven directly, and          *)
(* BatchSpec the batch command calling runTests for each URL of a list.    *)
(***************************************************************************)
EXTENDS Integers, Sequences, FiniteSets, TLC

VARIABLES
  url,               \* argument of runTests
  pc,                \* position inside runTests
  browserManager,    \* local browserManager: "null" or "created"
  browser,           \* BrowserManager.browser: "null" or "handle"
  page,              \* BrowserManager.page: "null" or "handle"
  browserProcess,    \* the launched browser: "none", "running", "closed"
  launchCalls,       \* number of puppeteer.launch calls
  gotoCalls,         \* number of page.goto calls
  closeCalls,        \* number of BrowserManager.close calls
  browserCloseCalls, \* number of browser.close calls on the handle
  navigation,        \* outcome of page.goto, "none" before it
  active,            \* phases whose runTests has been called and not returned
  callLog,           \* phases in the order their runTests was called
  phaseIdx,          \* index of the next statement of the phase block
  phaseResults,      \* the four const ...Results locals
  thrown,            \* message of the exception in flight to the catch block
  allIssues,         \* local allIssues
  summary,           \* local summary
  testResults,       \* local testResults, built is FALSE before line 115
  reportCalls,       \* number of generateReport calls
  result,            \* value runTests settles with
  thresholds,        \* config.performance.thresholds when the run starts
  failure,           \* statement of runTests that threw into the catch block
  sessionsOpen,      \* number of launched browsers not yet closed
  batch,             \* the batch command: its urls, loop index and results
  probe              \* a direct call of one operation: its input and output

vars == <<url, pc, browserManager, browser, page, browserProcess, launchCalls,
          gotoCalls, closeCalls, browserCloseCalls, navigation, active,
          callLog, phaseIdx, phaseResults, thrown, allIssues, summary,
          testResults, reportCalls, result, thresholds, failure,
          sessionsOpen, batch, probe>>

Undefined == "undefined"

-----------------------------------------------------------------------------
(* Bounds and input sets *)

MaxFindings == 1

ExceptionMessages == {"Target closed", "Protocol error"}

RuleIds == {"color-contrast", "image-alt"}

-----------------------------------------------------------------------------
(* URL validation: new URL(url) with no base *)

SpecialSchemes == {"http", "https"}

Urls ==
  { [scheme |-> "https", host |-> "example.com", text |-> "https://example.com"],
    [scheme |-> "https", host |-> "", text |-> "https://"],
    [scheme |-> "mailto", host |-> "", text |-> "mailto:a@example.com"],
    [scheme |-> "", host |-> "example.com", text |-> "example.com"],
    [scheme |-> "", host |-> "", text |-> "/about"] }

URLParsesSchemeOnly(u) == u.scheme # ""

URLParses(u) ==
  /\ u.scheme # ""
  /\ (u.scheme \in SpecialSchemes => u.host # "")

-----------------------------------------------------------------------------
(* Issues and phase results *)

Issue(type, description, severity) ==
  [type |-> type, description |-> description, severity |-> severity]

\* A phase result; issuesDefined is FALSE when the object has no issues
\* field, error is Undefined when it has no error field.
PhaseResult(success, issuesDefined, issues, error, scores) ==
  [success |-> success, issuesDefined |-> issuesDefined, issues |-> issues,
   error |-> error, scores |-> scores]

NoScores == [defined |-> FALSE, performance |-> 0, accessibility |-> 0,
             bestPractices |-> 0, seo |-> 0]

NoResult == PhaseResult(FALSE, FALSE, <<>>, Undefined, NoScores)

\* result.issues || []
IssuesOrEmpty(r) == IF r.issuesDefined THEN r.issues ELSE <<>>

RECURSIVE Flatten(_)
Flatten(lists) ==
  IF lists = <<>> THEN <<>> ELSE Head(lists) \o Flatten(Tail(lists))

SeqsUpTo(S, n) == UNION { [1..k -> S] : k \in 0..n }

Min(a, b) == IF a < b THEN a ELSE b
Max(a, b) == IF a > b THEN a ELSE b

-----------------------------------------------------------------------------
(* AccessibilityTester *)

\* `Accessibility ${severity}: ${issue.id}`
AccessibilityType(severity, id) ==
  IF severity = "error"
  THEN (IF id = "color-contrast" THEN "Accessibility error: color-contrast"
        ELSE "Accessibility error: image-alt")
  ELSE (IF id = "color-contrast" THEN "Accessibility warning: color-contrast"
        ELSE "Accessibility warning: image-alt")

\* issue.help of the rule
RuleHelp(id) ==
  IF id = "color-contrast"
  THEN "Elements must have sufficient color contrast"
  ELSE "Images must have alternate text"

_formatIssuesAsErrors(findings, severity) ==
  [i \in 1..Len(findings) |->
     Issue(AccessibilityType("error", findings[i]), RuleHelp(findings[i]),
           "error")]

_formatIssues(findings, severity) ==
  [i \in 1..Len(findings) |->
     Issue(AccessibilityType(severity, findings[i]), RuleHelp(findings[i]),
           severity)]

\* the DOM nodes 1..n a rule or a detector collected
NodeList(n) == [j \in 1..n |-> j]

\* the elements field of an issue, absent from the issues that have none
Elements(items) == [defined |-> TRUE, items |-> items]
WithoutElements == [defined |-> FALSE, items |-> <<>>]

\* the elements field of the issues _formatIssues builds from findings whose
\* nodes are given: nodes.map(node => ({html, target}))
_formatIssuesElements(nodes) ==
  [i \in 1..Len(nodes) |->
     Elements([j \in 1..Len(nodes[i]) |->
                 [html |-> nodes[i][j], target |-> nodes[i][j]]])]

\* What happens inside _injectAxeCore: the typeof check throws, reading
\* the axe-core script throws, evaluating the script in the page throws, or nothing
\* throws
InjectOutcomes == {"ok", "check throws", "read throws", "script throws"}

\* an _injectAxeCore that evaluates the script without looking for window.axe
_injectAxeCoreUnchecked(axe, outcome) ==
  IF outcome = "read throws"
  THEN [threw |-> TRUE, axe |-> axe, evaluated |-> FALSE]
  ELSE IF outcome = "script throws"
  THEN [threw |-> TRUE, axe |-> axe, evaluated |-> TRUE]
  ELSE [threw |-> FALSE, axe |-> TRUE, evaluated |-> TRUE]

\* _injectAxeCore on a page where window.axe is defined (axe) or not:
\* whether it threw, whether window.axe is defined afterwards, and whether
\* the axe script was evaluated in the page
_injectAxeCore(axe, outcome) ==
  IF outcome = "check throws"
  THEN [threw |-> TRUE, axe |-> axe, evaluated |-> FALSE]
  ELSE IF axe
  THEN [threw |-> FALSE, axe |-> TRUE, evaluated |-> FALSE]
  ELSE IF outcome = "read throws"
  THEN [threw |-> TRUE, axe |-> FALSE, evaluated |-> FALSE]
  ELSE IF outcome = "script throws"
  THEN [threw |-> TRUE, axe |-> FALSE, evaluated |-> TRUE]
  ELSE [threw |-> FALSE, axe |-> TRUE, evaluated |-> TRUE]

\* What the page and the axe engine do during one Accessibility phase:
\* inject is "ok" or "throws", audit is "ok", "error" (axe.run rejected, the
\* in-page promise resolves to {error}) or "throws" (page.evaluate rejected).
AccessibilityInputs ==
  { [inject |-> "throws", audit |-> "ok", message |-> m,
     violations |-> <<>>, incomplete |-> <<>>] : m \in ExceptionMessages }
  \cup
  { [inject |-> "ok", audit |-> a, message |-> m,
     violations |-> <<>>, incomplete |-> <<>>] :
       a \in {"error", "throws"}, m \in ExceptionMessages }
  \cup
  { [inject |-> "ok", audit |-> "ok", message |-> Undefined,
     violations |-> v, incomplete |-> w] :
       v \in SeqsUpTo(RuleIds, MaxFindings),
       w \in SeqsUpTo(RuleIds, MaxFindings) }

\* AccessibilityTester.options.includeWarnings as constructed by TestRunner
includeWarnings == TRUE

\* AccessibilityTester.runTests of a tester constructed with the option
\* includeWarnings set to warn
AccessibilityTesterRunTests(in, warn) ==
  IF in.inject = "throws" \/ in.audit = "throws"
  THEN PhaseResult(FALSE, FALSE, <<>>, in.message, NoScores)
  ELSE IF in.audit = "error"
  THEN PhaseResult(FALSE, FALSE, <<>>, in.message, NoScores)
  ELSE LET violations == in.violations
           warnings == IF warn THEN in.incomplete ELSE <<>>
           issues == _formatIssues(violations, "error")
                       \o _formatIssues(warnings, "warning")
       IN PhaseResult(Len(violations) = 0, TRUE, issues, Undefined, NoScores)

AccessibilityRunTests(in) == AccessibilityTesterRunTests(in, includeWarnings)

-----------------------------------------------------------------------------
(* FunctionalTester *)

SubTests == <<"navigation", "buttons", "forms", "links", "images", "inputs">>

\* A sub-test result: its issues field may be absent (no element matched).
SubResult(issuesDefined, issues) ==
  [issuesDefined |-> issuesDefined, issues |-> issues]

NoElements == SubResult(FALSE, <<>>)
Clean == SubResult(TRUE, <<>>)

FormMissingSubmit ==
  Issue("Form Missing Submit", "Form does not have a submit button", "error")
FormInputMissingLabel ==
  Issue("Input Missing Label", "Required input is missing a label", "warning")
NavigationMissing ==
  Issue("Navigation Missing", "No navigation elements found on the page",
        "warning")
ButtonNotClickable ==
  Issue("Button Not Clickable", "Button is not clickable", "error")
InputTestError(m) == Issue("Input Test Error", m, "error")

\* The six sub-test results of a page, in the order of SubTests.
FunctionalPages ==
  { <<Clean, NoElements, NoElements, Clean, Clean, NoElements>>,
    <<Clean, Clean, SubResult(TRUE, <<FormMissingSubmit, FormInputMissingLabel>>),
      Clean, Clean, Clean>>,
    <<SubResult(TRUE, <<NavigationMissing>>), NoElements, NoElements, Clean,
      Clean, NoElements>>,
    <<Clean, SubResult(TRUE, <<ButtonNotClickable>>), NoElements, Clean, Clean,
      SubResult(TRUE, <<InputTestError("Target closed")>>)>> }

FunctionalInputs ==
  { [fault |-> FALSE, message |-> Undefined, results |-> pg] :
      pg \in FunctionalPages }
  \cup
  { [fault |-> TRUE, message |-> m,
     results |-> <<Clean, Clean, Clean, Clean, Clean, Clean>>] :
      m \in ExceptionMessages }

\* The form containers of a page in document order, all siblings: a <form>
\* element or a <div class="form">; submit says whether the container holds
\* a button[type="submit"]; inputs are its <input id=...> elements, each
\* required or not, labelled (a label[for=id] exists) or not, with or
\* without a placeholder, interactable (visible and not covered) or not.
MaxContainers == 2

InputElements ==
  [required : BOOLEAN, labelled : BOOLEAN, placeholder : BOOLEAN,
   interactable : BOOLEAN]

Containers ==
  [tag : {"form", "div"}, submit : BOOLEAN,
   inputs : {<<>>} \cup { <<i>> : i \in InputElements }]

\* position of the i-th container among its siblings of the same tag
NthOfType(cs, i) == Cardinality({ j \in 1..i : cs[j].tag = cs[i].tag })

\* form.selector of the k-th entry of _getAllElements('form, .form') is
\* 'form, .form:nth-of-type(k)': a list of two selectors, the second one
\* alone carrying the :nth-of-type. Whether the list matches container i:
FormSelectorMatches(cs, k, i) ==
  \/ cs[i].tag = "form"
  \/ cs[i].tag = "div" /\ NthOfType(cs, i) = k

\* _elementExists of the list 'form, .form:nth-of-type(k) button[...],
\* form, .form:nth-of-type(k) input[...]': the descendant part belongs to
\* the .form selectors only, the two bare 'form' selectors match any <form>
hasSubmitButton(cs, k) ==
  \/ \E i \in 1..Len(cs) : cs[i].tag = "form"
  \/ \E i \in 1..Len(cs) :
       cs[i].tag = "div" /\ NthOfType(cs, i) = k /\ cs[i].submit

IsRequired(input) == input.required
LacksLabel(input) == ~input.labelled

\* _getElementsWithAttribute(form.selector, 'input[required], ...', 'id')
requiredInputs(cs, k) ==
  Flatten([i \in 1..Len(cs) |->
             IF FormSelectorMatches(cs, k, i)
             THEN SelectSeq(cs[i].inputs, IsRequired) ELSE <<>>])

\* one iteration of the loop of testForms
FormIssues(cs, k) ==
  (IF hasSubmitButton(cs, k) THEN <<>> ELSE <<FormMissingSubmit>>)
  \o [j \in 1..Len(SelectSeq(requiredInputs(cs, k), LacksLabel)) |->
        FormInputMissingLabel]

testForms(cs) ==
  IF Len(cs) = 0 THEN NoElements
  ELSE SubResult(TRUE, Flatten([k \in 1..Len(cs) |-> FormIssues(cs, k)]))

InputNotInteractable ==
  Issue("Input Not Interactable", "Input element is not interactable",
        "error")
InputMissingLabel ==
  Issue("Input Missing Label",
        "Input element is missing a label or placeholder", "warning")

\* testInputs: the selector of the i-th input is the whole list followed by
\* :nth-of-type(i), whose first alternative is the bare 'input', so every
\* iteration of the loop over the first five inputs looks at the first
\* input of the document
testInputs(cs) ==
  LET inputs == Flatten([i \in 1..Len(cs) |-> cs[i].inputs])
      first == inputs[1]
      once == (IF first.interactable THEN <<>> ELSE <<InputNotInteractable>>)
              \o (IF first.labelled \/ first.placeholder
                  THEN <<>> ELSE <<InputMissingLabel>>)
  IN IF Len(inputs) = 0 THEN NoElements
     ELSE SubResult(TRUE, Flatten([i \in 1..Min(Len(inputs), 5) |-> once]))

LinksMissing == Issue("Links Missing", "No links found on the page", "warning")

\* What testNavigation, testButtons, testLinks and testImages return for
\* the rest of the page
RestOfPage ==
  { [navigation |-> Clean, buttons |-> NoElements, links |-> Clean,
     images |-> NoElements],
    [navigation |-> Clean, buttons |-> NoElements,
     links |-> SubResult(TRUE, <<LinksMissing>>), images |-> NoElements] }

FunctionalTesterPages ==
  [containers : SeqsUpTo(Containers, MaxContainers), rest : RestOfPage]

\* the object results of FunctionalTester.runTests
SubTestResults(pg) ==
  <<pg.rest.navigation, pg.rest.buttons, testForms(pg.containers),
    pg.rest.links, pg.rest.images, testInputs(pg.containers)>>

FunctionalRunTestsErrorsOnly(in) ==
  IF in.fault
  THEN PhaseResult(FALSE, FALSE, <<>>, in.message, NoScores)
  ELSE LET issues ==
             Flatten([i \in 1..Len(SubTests) |-> IssuesOrEmpty(in.results[i])])
       IN PhaseResult(\A i \in 1..Len(issues) : issues[i].severity # "error",
                      TRUE, issues, Undefined, NoScores)

FunctionalRunTests(in) ==
  IF in.fault
  THEN PhaseResult(FALSE, FALSE, <<>>, in.message, NoScores)
  ELSE LET issues ==
             Flatten([i \in 1..Len(SubTests) |-> IssuesOrEmpty(in.results[i])])
       IN PhaseResult(issues = <<>>, TRUE, issues, Undefined, NoScores)

-----------------------------------------------------------------------------
(* PerformanceTester *)

\* Scores are fractions of ScoreScale (ScoreScale stands for 1.0); times are
\* whole milliseconds, sizes whole bytes, so the arithmetic below is exact.
ScoreScale == 100000

calculateScoreUnclamped(value, min, max) ==
  ScoreScale - ((value - min) * ScoreScale) \div (max - min)

calculateScore(value, min, max) ==
  LET score == ScoreScale
                 - Min(Max(((value - min) * ScoreScale) \div (max - min), 0),
                       ScoreScale)
  IN Max(0, Min(ScoreScale, score))

\* config.performance.thresholds
DefaultThresholds ==
  [performance |-> 70000, accessibility |-> 90000, bestPractices |-> 90000,
   seo |-> 80000]

Categories == <<"performance", "accessibility", "bestPractices", "seo">>

ScoresUnblended(firstContentfulPaintTime, loadTime) ==
  [defined |-> TRUE,
   performance |-> calculateScore(firstContentfulPaintTime, 1000, 3000)
                     + calculateScore(loadTime, 2000, 6000),
   accessibility |-> 85000,
   bestPractices |-> 90000,
   seo |-> 85000]

Scores(firstContentfulPaintTime, loadTime) ==
  [defined |-> TRUE,
   performance |-> (calculateScore(firstContentfulPaintTime, 1000, 3000) * 4
                      + calculateScore(loadTime, 2000, 6000) * 6) \div 10,
   accessibility |-> 85000,
   bestPractices |-> 90000,
   seo |-> 85000]

SlowPageLoad ==
  Issue("Slow Page Load", "Page load time is slow", "warning")
SlowFirstContentfulPaint ==
  Issue("Slow First Contentful Paint", "First Contentful Paint is slow",
        "warning")
LargePageSize ==
  Issue("Large Page Size", "Page resources are large", "warning")
TooManyResources ==
  Issue("Too Many Resources", "Page loads too many resources", "warning")
\* description names the category whose score is below its threshold
PerformanceIssue(category) == Issue("Performance Issue", category, "warning")

LargePageBytes == 3 * 1024 * 1024

ThresholdIssuesAtOrBelow(scores, limits) ==
  Flatten([i \in 1..Len(Categories) |->
             IF scores[Categories[i]] <= limits[Categories[i]]
             THEN <<PerformanceIssue(Categories[i])>> ELSE <<>>])

ThresholdIssues(scores, limits) ==
  Flatten([i \in 1..Len(Categories) |->
             IF scores[Categories[i]] < limits[Categories[i]]
             THEN <<PerformanceIssue(Categories[i])>> ELSE <<>>])

\* What the driver measures during one Performance phase; fault is TRUE
\* when a driver call (setCacheEnabled, createCDPSession, reload, ...) throws.
PerformanceInputs ==
  { [fault |-> TRUE, message |-> m, loadTime |-> 0,
     firstContentfulPaintTime |-> 0, totalResourceSize |-> 0,
     totalResources |-> 0] : m \in ExceptionMessages }
  \cup
  { [fault |-> FALSE, message |-> Undefined, loadTime |-> x[1],
     firstContentfulPaintTime |-> x[2], totalResourceSize |-> x[3],
     totalResources |-> x[4]] :
       x \in { <<1200, 800, 1000000, 50>>,
               <<4000, 1500, 1000000, 50>>,
               <<3000, 2000, LargePageBytes, 80>>,
               <<7000, 2500, LargePageBytes + 1, 81>> } }

MetricIssuesLoadOver4000(in) ==
  (IF in.loadTime > 4000 THEN <<SlowPageLoad>> ELSE <<>>)
  \o (IF in.firstContentfulPaintTime > 2000
      THEN <<SlowFirstContentfulPaint>> ELSE <<>>)
  \o (IF in.totalResourceSize > LargePageBytes
      THEN <<LargePageSize>> ELSE <<>>)
  \o (IF in.totalResources > 80 THEN <<TooManyResources>> ELSE <<>>)

\* the four checks of the measured metrics, in the order of the code
MetricIssues(in) ==
  (IF in.loadTime > 3000 THEN <<SlowPageLoad>> ELSE <<>>)
  \o (IF in.firstContentfulPaintTime > 2000
      THEN <<SlowFirstContentfulPaint>> ELSE <<>>)
  \o (IF in.totalResourceSize > LargePageBytes
      THEN <<LargePageSize>> ELSE <<>>)
  \o (IF in.totalResources > 80 THEN <<TooManyResources>> ELSE <<>>)

PerformanceRunTests(in, browserField, limits) ==
  IF browserField = "null"
  THEN PhaseResult(FALSE, TRUE,
                   <<Issue("Performance Test Error", "Browser not initialized",
                           "error")>>,
                   "Browser not initialized", NoScores)
  ELSE IF in.fault
  THEN PhaseResult(FALSE, TRUE,
                   <<Issue("Performance Test Error", in.message, "error")>>,
                   in.message, NoScores)
  ELSE LET scores == Scores(in.firstContentfulPaintTime, in.loadTime)
           issues == MetricIssues(in) \o ThresholdIssues(scores, limits)
       IN PhaseResult(Len(issues) = 0, TRUE, issues, Undefined, scores)

-----------------------------------------------------------------------------
(* ResponsiveTester *)

\* config.viewports
viewports ==
  << [width |-> 1920, height |-> 1080, name |-> "Desktop"],
     [width |-> 1366, height |-> 768, name |-> "Laptop"],
     [width |-> 768, height |-> 1024, name |-> "Tablet"],
     [width |-> 375, height |-> 667, name |-> "Mobile"] >>

\* What happens at one viewport: step is "ok", or the call that throws
\* ("setViewport" or "takeScreenshot"); the four detector results follow.
ViewportObservation(step, overflow, overflowing, tiny, overlapping) ==
  [step |-> step, hasHorizontalOverflow |-> overflow,
   overflowingElements |-> overflowing, tinyTextElements |-> tiny,
   overlappingElements |-> overlapping]

Responsive == ViewportObservation("ok", FALSE, 0, 0, 0)
Overflows == ViewportObservation("ok", TRUE, 2, 0, 0)
Cramped == ViewportObservation("ok", FALSE, 0, 3, 1)
ResizeFails == ViewportObservation("setViewport", FALSE, 0, 0, 0)
ScreenshotFails == ViewportObservation("takeScreenshot", FALSE, 0, 0, 0)

ResponsiveInputs ==
  { [message |-> Undefined, obs |-> o] :
      o \in { <<Responsive, Responsive, Responsive, Responsive>>,
              <<Responsive, Responsive, Responsive, Overflows>>,
              <<Responsive, Responsive, Cramped, Overflows>> } }
  \cup
  { [message |-> m, obs |-> o] :
      m \in ExceptionMessages,
      o \in { <<ResizeFails, Responsive, Responsive, Responsive>>,
              <<Overflows, Responsive, ScreenshotFails, Responsive>> } }

\* horizontal overflow reported as a warning
ViewportIssuesOverflowAsWarning(viewport, o) ==
  (IF o.hasHorizontalOverflow
   THEN <<Issue("Horizontal Overflow", viewport.name, "warning")>> ELSE <<>>)
  \o (IF o.overflowingElements > 0
      THEN <<Issue("Overflowing Elements", viewport.name, "warning")>>
      ELSE <<>>)
  \o (IF o.tinyTextElements > 0
      THEN <<Issue("Tiny Text", viewport.name, "warning")>> ELSE <<>>)
  \o (IF o.overlappingElements > 0
      THEN <<Issue("Overlapping Elements", viewport.name, "warning")>>
      ELSE <<>>)

\* issues pushed for one viewport, lines 75-112
ViewportIssues(viewport, o) ==
  (IF o.hasHorizontalOverflow
   THEN <<Issue("Horizontal Overflow", viewport.name, "error")>> ELSE <<>>)
  \o (IF o.overflowingElements > 0
      THEN <<Issue("Overflowing Elements", viewport.name, "warning")>>
      ELSE <<>>)
  \o (IF o.tinyTextElements > 0
      THEN <<Issue("Tiny Text", viewport.name, "warning")>> ELSE <<>>)
  \o (IF o.overlappingElements > 0
      THEN <<Issue("Overlapping Elements", viewport.name, "warning")>>
      ELSE <<>>)

\* the for loop over the viewports from index k with the issues so far;
\* threw is TRUE when setViewport or takeScreenshot threw
RECURSIVE ViewportLoop(_, _, _, _)
ViewportLoop(vps, obs, k, issues) ==
  IF k > Len(vps) THEN [threw |-> FALSE, issues |-> issues]
  ELSE IF obs[k].step # "ok" THEN [threw |-> TRUE, issues |-> issues]
  ELSE ViewportLoop(vps, obs, k + 1, issues \o ViewportIssues(vps[k], obs[k]))

\* a catch block that keeps the issues found before the exception
ResponsiveRunTestsKeepsIssues(in, vps) ==
  LET loop == ViewportLoop(vps, in.obs, 1, <<>>)
  IN IF loop.threw
     THEN PhaseResult(FALSE, TRUE,
                      loop.issues
                        \o <<Issue("Responsive Test Error", in.message,
                                   "error")>>,
                      in.message, NoScores)
     ELSE PhaseResult(Len(loop.issues) = 0, TRUE, loop.issues, Undefined,
                      NoScores)

ResponsiveRunTests(in, vps) ==
  LET loop == ViewportLoop(vps, in.obs, 1, <<>>)
  IN IF loop.threw
     THEN PhaseResult(FALSE, TRUE,
                      <<Issue("Responsive Test Error", in.message, "error")>>,
                      in.message, NoScores)
     ELSE PhaseResult(Len(loop.issues) = 0, TRUE, loop.issues, Undefined,
                      NoScores)

\* array.slice(start, end) with 0 <= start
Slice(s, start, end) == SubSeq(s, start + 1, Min(end, Len(s)))

\* one in-page detector at one viewport: page.evaluate throws (fails), or
\* the overflow check gives value, or nodes DOM nodes match the detector
Check(fails, value) == [fails |-> fails, value |-> value]
Found(fails, nodes) == [fails |-> fails, nodes |-> nodes]

\* the four detectors: each catches its own exception
_checkHorizontalOverflow(d) == IF d.fails THEN FALSE ELSE d.value

_findOverflowingElements(d) ==
  IF d.fails THEN <<>> ELSE Slice(NodeList(d.nodes), 0, 10)

_findTinyText(d) ==
  IF d.fails THEN <<>> ELSE Slice(NodeList(d.nodes), 0, 10)

_findOverlappingElements(d) ==
  IF d.fails THEN <<>> ELSE Slice(NodeList(d.nodes), 0, 10)

\* What the page does at one viewport: step is "ok" or the awaited call that
\* throws ("setViewport", "waitForTimeout" or "takeScreenshot"), followed by
\* what each detector meets
PageAtViewport(step, overflow, overflowing, tiny, overlapping) ==
  [step |-> step, overflow |-> overflow, overflowing |-> overflowing,
   tiny |-> tiny, overlapping |-> overlapping]

\* the four locals of lines 61-70
Observe(raw) ==
  ViewportObservation(raw.step,
                      _checkHorizontalOverflow(raw.overflow),
                      Len(_findOverflowingElements(raw.overflowing)),
                      Len(_findTinyText(raw.tiny)),
                      Len(_findOverlappingElements(raw.overlapping)))

\* the elements fields of the issues pushed for one viewport, lines 75-112
ViewportIssueElements(raw) ==
  (IF _checkHorizontalOverflow(raw.overflow)
   THEN <<WithoutElements>> ELSE <<>>)
  \o (IF Len(_findOverflowingElements(raw.overflowing)) > 0
      THEN <<Elements(_findOverflowingElements(raw.overflowing))>>
      ELSE <<>>)
  \o (IF Len(_findTinyText(raw.tiny)) > 0
      THEN <<Elements(_findTinyText(raw.tiny))>> ELSE <<>>)
  \o (IF Len(_findOverlappingElements(raw.overlapping)) > 0
      THEN <<Elements(_findOverlappingElements(raw.overlapping))>>
      ELSE <<>>)

\* the entry pushed to results for one viewport, lines 115-122
ViewportResult(viewport, o) ==
  [viewport |-> viewport,
   hasHorizontalOverflow |-> o.hasHorizontalOverflow,
   overflowingElementsCount |-> o.overflowingElements,
   tinyTextElementsCount |-> o.tinyTextElements,
   overlappingElementsCount |-> o.overlappingElements]

\* ResponsiveTester.runTests over the viewports vps: the phase result, the
\* results field (absent from the result of the catch block) and the
\* elements field of each issue
ResponsiveTesterRunTests(raws, message, vps) ==
  LET obs == [k \in 1..Len(raws) |-> Observe(raws[k])]
      threw == ViewportLoop(vps, obs, 1, <<>>).threw
  IN [out |-> ResponsiveRunTests([message |-> message, obs |-> obs], vps),
      resultsDefined |-> ~threw,
      results |-> IF threw THEN <<>>
                  ELSE [k \in 1..Len(vps) |-> ViewportResult(vps[k], obs[k])],
      elements |-> IF threw THEN <<WithoutElements>>
                   ELSE Flatten([k \in 1..Len(vps) |->
                                   ViewportIssueElements(raws[k])])]

-----------------------------------------------------------------------------
(* BrowserManager *)

Statuses == {200, 399, 400, 404}

\* What page.goto does: it throws, resolves to null, or resolves to a
\* response with a status.
GotoOutcomes ==
  { [kind |-> "throws", status |-> 0], [kind |-> "null", status |-> 0] }
  \cup { [kind |-> "response", status |-> st] : st \in Statuses }

NoNavigation == [kind |-> "none", status |-> 0]

navigateToAbove400(outcome) ==
  IF outcome.kind = "throws" THEN FALSE
  ELSE IF outcome.kind = "null" THEN FALSE
  ELSE IF outcome.status > 400 THEN FALSE
  ELSE TRUE

\* value returned by BrowserManager.navigateTo
navigateTo(outcome) ==
  IF outcome.kind = "throws" THEN FALSE
  ELSE IF outcome.kind = "null" THEN FALSE
  ELSE IF outcome.status >= 400 THEN FALSE
  ELSE TRUE

-----------------------------------------------------------------------------
(* TestRunner.runTests *)

CallOrderFunctionalFirst ==
  <<"functional", "responsive", "performance", "accessibility">>

\* order of the awaited runTests calls
CallOrder == <<"accessibility", "functional", "performance", "responsive">>

IssueOrderFunctionalFirst ==
  <<"functional", "responsive", "performance", "accessibility">>

\* order of the spreads that build allIssues
IssueOrder == <<"accessibility", "functional", "performance", "responsive">>

Phases == {"accessibility", "functional", "performance", "responsive"}

\* config is an exported, mutable object read when the tester is constructed:
\* the defaults, and the defaults with the accessibility threshold lowered
ThresholdConfigs ==
  { DefaultThresholds, [DefaultThresholds EXCEPT !.accessibility = 85000] }

NoSummary ==
  [totalPages |-> 0, totalTests |-> 0, passedTests |-> 0, failedTests |-> 0]

NoTestResults ==
  [built |-> FALSE, url |-> Undefined, summary |-> NoSummary,
   performance |-> NoScores, issues |-> <<>>]

\* the value of the run before it settles
NoReturn ==
  [success |-> FALSE, error |-> Undefined, hasResults |-> FALSE,
   hasReportPaths |-> FALSE]

\* [...].filter(Boolean).length
CountTrue(flags) == Cardinality({ i \in 1..Len(flags) : flags[i] })

\* allIssues: the spreads of lines 90-93
CollectIssues(results) ==
  Flatten([i \in 1..Len(IssueOrder) |-> IssuesOrEmpty(results[IssueOrder[i]])])

SummaryFailedByError(results) ==
  [totalPages |-> 1,
   totalTests |-> 4,
   passedTests |-> CountTrue(<<results["accessibility"].success,
                               results["functional"].success,
                               results["performance"].success,
                               results["responsive"].success>>),
   failedTests |-> CountTrue(<<results["accessibility"].error # Undefined,
                               results["functional"].error # Undefined,
                               results["performance"].error # Undefined,
                               results["responsive"].error # Undefined>>)]

Summary(results) ==
  [totalPages |-> 1,
   totalTests |-> 4,
   passedTests |-> CountTrue(<<results["accessibility"].success,
                               results["functional"].success,
                               results["performance"].success,
                               results["responsive"].success>>),
   failedTests |-> CountTrue(<<~results["accessibility"].success,
                               ~results["functional"].success,
                               ~results["performance"].success,
                               ~results["responsive"].success>>)]

\* not in batch mode, and no operation called directly
NoBatch == [urls |-> <<>>, i |-> 0, results |-> <<>>, exitCode |-> Undefined]
NoProbe == [kind |-> "none"]

Init ==
  /\ url \in Urls
  /\ thresholds \in ThresholdConfigs
  /\ pc = "validate"
  /\ browserManager = "null"
  /\ browser = "null"
  /\ page = "null"
  /\ browserProcess = "none"
  /\ launchCalls = 0
  /\ gotoCalls = 0
  /\ closeCalls = 0
  /\ browserCloseCalls = 0
  /\ navigation = NoNavigation
  /\ active = {}
  /\ callLog = <<>>
  /\ phaseIdx = 1
  /\ phaseResults = [p \in Phases |-> NoResult]
  /\ thrown = Undefined
  /\ allIssues = <<>>
  /\ summary = NoSummary
  /\ testResults = NoTestResults
  /\ reportCalls = 0
  /\ result = NoReturn
  /\ failure = "none"
  /\ sessionsOpen = 0
  /\ batch = NoBatch
  /\ probe = NoProbe

\* lines 45-57: new URL(url), then new BrowserManager(...)
ValidateUrl ==
  /\ pc = "validate"
  /\ IF URLParses(url)
     THEN /\ browserManager' = "created"
          /\ pc' = "initialize"
          /\ UNCHANGED <<thrown, failure>>
     ELSE /\ thrown' = "Invalid URL"
          /\ failure' = "validate"
          /\ pc' = "catch"
          /\ UNCHANGED browserManager
  /\ UNCHANGED <<url, browser, page, browserProcess, launchCalls, gotoCalls,
                 closeCalls, browserCloseCalls, navigation, active, callLog,
                 phaseIdx, phaseResults, allIssues, summary, testResults,
                 reportCalls, result, thresholds, sessionsOpen, batch, probe>>

\* What the driver does during BrowserManager.initialize
InitializeOutcomes == {"launch throws", "newPage throws", "ok"}

\* BrowserManager.initialize: puppeteer.launch or browser.newPage may
\* throw, and initialize rethrows
BrowserManagerInitialize(outcome) ==
  /\ launchCalls' = launchCalls + 1
  /\ IF outcome = "launch throws"
     THEN UNCHANGED <<browser, page, browserProcess, sessionsOpen>>
     ELSE /\ browser' = "handle"
          /\ browserProcess' = "running"
          /\ sessionsOpen' = sessionsOpen + 1
          /\ IF outcome = "newPage throws"
             THEN UNCHANGED page
             ELSE page' = "handle"

\* line 59: await browserManager.initialize()
Initialize ==
  /\ pc = "initialize"
  /\ \E outcome \in InitializeOutcomes :
       /\ BrowserManagerInitialize(outcome)
       /\ IF outcome = "ok"
          THEN /\ pc' = "navigate"
               /\ UNCHANGED <<thrown, failure>>
          ELSE /\ \E m \in ExceptionMessages : thrown' = m
               /\ failure' = "initialize"
               /\ pc' = "catch"
  /\ UNCHANGED <<url, browserManager, gotoCalls, closeCalls, browserCloseCalls,
                 navigation, active, callLog, phaseIdx, phaseResults,
                 allIssues, summary, testResults, reportCalls, result,
                 thresholds, batch, probe>>

\* lines 61-65 and BrowserManager.navigateTo
Navigate ==
  /\ pc = "navigate"
  /\ gotoCalls' = gotoCalls + 1
  /\ \E outcome \in GotoOutcomes :
       /\ navigation' = outcome
       /\ IF navigateTo(outcome)
          THEN /\ pc' = "phases"
               /\ UNCHANGED <<thrown, failure>>
          ELSE /\ thrown' = "Failed to navigate"
               /\ failure' = "navigate"
               /\ pc' = "catch"
  /\ UNCHANGED <<url, browserManager, browser, page, browserProcess,
                 launchCalls, closeCalls, browserCloseCalls, active, callLog,
                 phaseIdx, phaseResults, allIssues, summary, testResults,
                 reportCalls, result, thresholds, sessionsOpen, batch, probe>>

\* lines 77, 80, 83, 86: the next tester's runTests is called once the
\* previous await has resumed
CallPhase ==
  /\ pc = "phases"
  /\ active = {}
  /\ phaseIdx <= Len(CallOrder)
  /\ active' = {CallOrder[phaseIdx]}
  /\ callLog' = Append(callLog, CallOrder[phaseIdx])
  /\ UNCHANGED <<url, pc, browserManager, browser, page, browserProcess,
                 launchCalls, gotoCalls, closeCalls, browserCloseCalls,
                 navigation, phaseIdx, phaseResults, thrown, allIssues,
                 summary, testResults, reportCalls, result, thresholds, failure,
                 sessionsOpen, batch, probe>>

ReturnPhaseAborts(p, r) ==
  /\ pc = "phases"
  /\ p \in active
  /\ phaseResults' = [phaseResults EXCEPT ![p] = r]
  /\ active' = active \ {p}
  /\ phaseIdx' = phaseIdx + 1
  /\ IF r.error # Undefined
     THEN pc' = "catch" /\ thrown' = r.error
     ELSE /\ pc' = IF phaseIdx = Len(CallOrder) THEN "aggregate" ELSE "phases"
          /\ UNCHANGED thrown
  /\ UNCHANGED <<url, browserManager, browser, page, browserProcess,
                 launchCalls, gotoCalls, closeCalls, browserCloseCalls,
                 navigation, callLog, allIssues, summary, testResults,
                 reportCalls, result, thresholds, failure,
                 sessionsOpen, batch, probe>>

\* the awaited runTests of phase p resolves to r
ReturnPhase(p, r) ==
  /\ pc = "phases"
  /\ p \in active
  /\ phaseResults' = [phaseResults EXCEPT ![p] = r]
  /\ active' = active \ {p}
  /\ phaseIdx' = phaseIdx + 1
  /\ pc' = IF phaseIdx = Len(CallOrder) THEN "aggregate" ELSE "phases"
  /\ UNCHANGED <<url, browserManager, browser, page, browserProcess,
                 launchCalls, gotoCalls, closeCalls, browserCloseCalls,
                 navigation, callLog, thrown, allIssues, summary, testResults,
                 reportCalls, result, thresholds, failure,
                 sessionsOpen, batch, probe>>

AccessibilityReturns ==
  \E in \in AccessibilityInputs :
    ReturnPhase("accessibility", AccessibilityRunTests(in))

FunctionalReturns ==
  \E in \in FunctionalInputs :
    ReturnPhase("functional", FunctionalRunTests(in))

\* a performance tester that closes the browser it was handed
PerformanceReturnsClosingBrowser ==
  \E in \in PerformanceInputs :
    /\ pc = "phases"
    /\ "performance" \in active
    /\ phaseResults' =
         [phaseResults EXCEPT
            !["performance"] = PerformanceRunTests(in, browser, thresholds)]
    /\ active' = active \ {"performance"}
    /\ phaseIdx' = phaseIdx + 1
    /\ pc' = IF phaseIdx = Len(CallOrder) THEN "aggregate" ELSE "phases"
    /\ browser' = "null"
    /\ page' = "null"
    /\ browserProcess' = "closed"
    /\ browserCloseCalls' = browserCloseCalls + 1
    /\ sessionsOpen' = sessionsOpen - 1
    /\ UNCHANGED <<url, browserManager, launchCalls, gotoCalls, closeCalls,
                   navigation, callLog, thrown, allIssues, summary,
                   testResults, reportCalls, result, thresholds, failure,
                   batch, probe>>

PerformanceReturns ==
  \E in \in PerformanceInputs :
    ReturnPhase("performance", PerformanceRunTests(in, browser, thresholds))

ResponsiveReturns ==
  \E in \in ResponsiveInputs :
    ReturnPhase("responsive", ResponsiveRunTests(in, viewports))

\* lines 88-127: allIssues, summary, testResults
Aggregate ==
  /\ pc = "aggregate"
  /\ allIssues' = CollectIssues(phaseResults)
  /\ summary' = Summary(phaseResults)
  /\ testResults' = [built |-> TRUE, url |-> url.text,
                     summary |-> summary',
                     performance |-> phaseResults["performance"].scores,
                     issues |-> allIssues']
  /\ pc' = "report"
  /\ UNCHANGED <<url, browserManager, browser, page, browserProcess,
                 launchCalls, gotoCalls, closeCalls, browserCloseCalls,
                 navigation, active, callLog, phaseIdx, phaseResults, thrown,
                 reportCalls, result, thresholds, failure,
                 sessionsOpen, batch, probe>>

RunResultErrorsOnly(issues) ==
  [success |-> \A i \in 1..Len(issues) : issues[i].severity # "error",
   error |-> Undefined, hasResults |-> TRUE, hasReportPaths |-> TRUE]

\* value of the return statement at lines 137-141
RunResult(issues) ==
  [success |-> Len(issues) = 0, error |-> Undefined, hasResults |-> TRUE,
   hasReportPaths |-> TRUE]

ErrorResultNoError(message) ==
  [success |-> FALSE, error |-> Undefined, hasResults |-> FALSE,
   hasReportPaths |-> FALSE]

\* value of the return statement at lines 144-147
ErrorResult(message) ==
  [success |-> FALSE, error |-> message, hasResults |-> FALSE,
   hasReportPaths |-> FALSE]

\* a runTests that also writes a report from its catch block
GenerateReportOnError ==
  /\ pc = "report" \/ (pc = "catch" /\ reportCalls = 0)
  /\ reportCalls' = reportCalls + 1
  /\ \/ /\ result' = RunResult(allIssues)
        /\ pc' = "finally"
        /\ UNCHANGED <<thrown, failure>>
     \/ \E m \in ExceptionMessages :
          /\ thrown' = m
          /\ failure' = "report"
          /\ pc' = "catch"
          /\ UNCHANGED result
  /\ UNCHANGED <<url, browserManager, browser, page, browserProcess,
                 launchCalls, gotoCalls, closeCalls, browserCloseCalls,
                 navigation, active, callLog, phaseIdx, phaseResults,
                 allIssues, summary, testResults, thresholds, sessionsOpen,
                 batch, probe>>

\* lines 129-141: generateReport writes the report files and may throw
GenerateReport ==
  /\ pc = "report"
  /\ reportCalls' = reportCalls + 1
  /\ \/ /\ result' = RunResult(allIssues)
        /\ pc' = "finally"
        /\ UNCHANGED <<thrown, failure>>
     \/ \E m \in ExceptionMessages :
          /\ thrown' = m
          /\ failure' = "report"
          /\ pc' = "catch"
          /\ UNCHANGED result
  /\ UNCHANGED <<url, browserManager, browser, page, browserProcess,
                 launchCalls, gotoCalls, closeCalls, browserCloseCalls,
                 navigation, active, callLog, phaseIdx, phaseResults,
                 allIssues, summary, testResults, thresholds, sessionsOpen,
                 batch, probe>>

\* where control goes after the catch block: the finally block of line 148
AfterCatchSkipsCleanup == "returned"
AfterCatch == "finally"

\* lines 142-147
Catch ==
  /\ pc = "catch"
  /\ result' = ErrorResult(thrown)
  /\ thrown' = Undefined
  /\ pc' = AfterCatch
  /\ UNCHANGED <<url, browserManager, browser, page, browserProcess,
                 launchCalls, gotoCalls, closeCalls, browserCloseCalls,
                 navigation, active, callLog, phaseIdx, phaseResults,
                 allIssues, summary, testResults, reportCalls, thresholds,
                 failure, sessionsOpen, batch, probe>>

\* What browser.close() does when BrowserManager.close calls it
CloseOutcomes == {"ok", "throws"}

\* BrowserManager.close: nothing to do without a browser handle; otherwise
\* browser.close() is awaited, and when it throws the two fields keep
\* their handles and close rejects
BrowserManagerClose(outcome) ==
  /\ closeCalls' = closeCalls + 1
  /\ IF browser = "null"
     THEN UNCHANGED <<browser, page, browserProcess, browserCloseCalls,
                      sessionsOpen>>
     ELSE /\ browserCloseCalls' = browserCloseCalls + 1
          /\ IF outcome = "ok"
             THEN /\ browserProcess' = "closed"
                  /\ sessionsOpen' = sessionsOpen - 1
                  /\ browser' = "null"
                  /\ page' = "null"
             ELSE UNCHANGED <<browser, page, browserProcess, sessionsOpen>>

\* whether that call of BrowserManager.close rejects
CloseThrows(outcome) == browser # "null" /\ outcome = "throws"

\* lines 148-153: the finally block; when close rejects, runTests rejects
\* with that error instead of returning
Finally ==
  /\ pc = "finally"
  /\ IF browserManager = "null"
     THEN /\ pc' = "returned"
          /\ UNCHANGED <<browser, page, browserProcess, closeCalls,
                         browserCloseCalls, sessionsOpen, thrown>>
     ELSE \E outcome \in CloseOutcomes :
            /\ BrowserManagerClose(outcome)
            /\ IF CloseThrows(outcome)
               THEN /\ \E m \in ExceptionMessages : thrown' = m
                    /\ pc' = "rejected"
               ELSE /\ pc' = "returned"
                    /\ UNCHANGED thrown
  /\ UNCHANGED <<url, browserManager, launchCalls, gotoCalls, navigation,
                 active, callLog, phaseIdx, phaseResults, allIssues, summary,
                 testResults, reportCalls, result, thresholds, failure,
                 batch, probe>>

Next ==
  \/ ValidateUrl
  \/ Initialize
  \/ Navigate
  \/ CallPhase
  \/ AccessibilityReturns
  \/ FunctionalReturns
  \/ PerformanceReturns
  \/ ResponsiveReturns
  \/ Aggregate
  \/ GenerateReport
  \/ Catch
  \/ Finally

Spec == Init /\ [][Next]_vars

-----------------------------------------------------------------------------
(* Options: the configuration file, the test command and the constructors  *)

\* {...defaults, ...options}: a key of options wins over the same key of
\* defaults
Spread(defaults, options) ==
  [k \in DOMAIN defaults \cup DOMAIN options |->
     IF k \in DOMAIN options THEN options[k] ELSE defaults[k]]

\* {}
EmptyObject == <<>>

\* config.defaultElementsToTest
defaultElementsToTest ==
  [navigation |-> "nav, header, .navigation, .navbar, .nav-menu",
   buttons |-> "button, .btn, [role=button], input[type=button], input[type=submit]",
   forms |-> "form, .form",
   links |-> "a, [role=link]",
   images |-> "img, picture, [role=img]",
   inputs |-> "input, textarea, select, [role=textbox], [role=combobox]"]

\* module.exports of config.js, which init-config writes out as JSON
config ==
  [viewports |-> viewports,
   timeouts |-> [navigation |-> 30000, waitForElement |-> 5000,
                 performance |-> 60000],
   performance |-> [thresholds |-> DefaultThresholds],
   defaultElementsToTest |-> defaultElementsToTest,
   reports |-> [outputDir |-> "./reports",
                formats |-> <<"console", "html", "json">>]]

\* testOptions of the test command, customConfig being {} without --config
CliTestOptions(customConfig) ==
  Spread([headless |-> "new",
          defaultTimeout |-> config.timeouts.navigation,
          reportOptions |-> [outputDir |-> "./reports",
                             formats |-> <<"console", "html", "json">>]],
         customConfig)

\* this.options of a TestRunner constructed with options
TestRunnerOptions(options) ==
  Spread([headless |-> "new",
          defaultViewport |-> [width |-> 1366, height |-> 768],
          defaultTimeout |-> config.timeouts.navigation,
          reportOptions |-> config.reports],
         options)

\* this.options of the testers constructed with options
PerformanceTesterOptions(options) ==
  Spread([thresholds |-> config.performance.thresholds], options)

FunctionalTesterOptions(options) ==
  Spread([elementsToTest |-> config.defaultElementsToTest,
          waitTimeout |-> config.timeouts.waitForElement], options)

ResponsiveTesterOptions(options) ==
  Spread([viewports |-> config.viewports,
          screenshotDir |-> "./screenshots",
          takeScreenshots |-> TRUE], options)

\* the testers as runTests constructs them, lines 67-73: the runner's
\* options are not handed on
Testers(options) ==
  [performance |-> PerformanceTesterOptions(EmptyObject),
   functional |-> FunctionalTesterOptions(EmptyObject),
   responsive |-> ResponsiveTesterOptions([takeScreenshots |-> TRUE])]

-----------------------------------------------------------------------------
(* Direct calls of the exported testers and of calculateScore, outside a   *)
(* run of runTests: one call on a freshly constructed tester                *)

MaxProbeFindings == 2

\* a completed audit with up to MaxProbeFindings findings of each kind, or
\* one of the failures of AccessibilityInputs
ProbeAccessibilityInputs ==
  { in \in AccessibilityInputs : in.audit # "ok" \/ in.inject # "ok" }
  \cup
  { [inject |-> "ok", audit |-> "ok", message |-> Undefined,
     violations |-> v, incomplete |-> w] :
       v \in SeqsUpTo(RuleIds, MaxProbeFindings),
       w \in SeqsUpTo(RuleIds, MaxProbeFindings) }

\* times in milliseconds, and the two ranges calculateScore is called with
ScoreValues == {0, 500, 1000, 1500, 2000, 2500, 3000, 4000, 6000, 7000}
ScoreRanges == { <<1000, 3000>>, <<2000, 6000>> }

\* measurements on both sides of every limit of PerformanceTester.runTests
ProbePerformanceInputs ==
  { in \in PerformanceInputs : in.fault }
  \cup
  [fault : {FALSE}, message : {Undefined},
   loadTime : {0, 2000, 3000, 3001, 4000, 7000},
   firstContentfulPaintTime : {0, 1000, 1500, 2000, 2001, 3500},
   totalResourceSize : {1000000, LargePageBytes, LargePageBytes + 1},
   totalResources : {50, 80, 81}]

\* options.thresholds of a PerformanceTester
ProbeThresholdConfigs ==
  ThresholdConfigs
  \cup { [performance |-> 50000, accessibility |-> 85000,
          bestPractices |-> 90000, seo |-> 85000],
         [performance |-> ScoreScale, accessibility |-> ScoreScale,
          bestPractices |-> ScoreScale, seo |-> ScoreScale] }

\* no run of runTests is in progress
Idle ==
  /\ url = [scheme |-> "https", host |-> "example.com",
            text |-> "https://example.com"]
  /\ thresholds = DefaultThresholds
  /\ pc = "idle"
  /\ browserManager = "null"
  /\ browser = "null"
  /\ page = "null"
  /\ browserProcess = "none"
  /\ launchCalls = 0
  /\ gotoCalls = 0
  /\ closeCalls = 0
  /\ browserCloseCalls = 0
  /\ navigation = NoNavigation
  /\ active = {}
  /\ callLog = <<>>
  /\ phaseIdx = 1
  /\ phaseResults = [p \in Phases |-> NoResult]
  /\ thrown = Undefined
  /\ allIssues = <<>>
  /\ summary = NoSummary
  /\ testResults = NoTestResults
  /\ reportCalls = 0
  /\ result = NoReturn
  /\ failure = "none"
  /\ sessionsOpen = 0

runVarsButPc == <<url, browserManager, browser, page, browserProcess,
                  launchCalls, gotoCalls, closeCalls, browserCloseCalls,
                  navigation, active, callLog, phaseIdx, phaseResults,
                  thrown, allIssues, summary, testResults, reportCalls,
                  result, thresholds, failure, sessionsOpen>>

runVars == <<url, pc, browserManager, browser, page, browserProcess,
             launchCalls, gotoCalls, closeCalls, browserCloseCalls,
             navigation, active, callLog, phaseIdx, phaseResults, thrown,
             allIssues, summary, testResults, reportCalls, result,
             thresholds, failure, sessionsOpen>>

ProbeInit ==
  /\ Idle
  /\ batch = NoBatch
  /\ probe = NoProbe

\* new AccessibilityTester(browserManager, {includeWarnings}).runTests()
CallAccessibilityTester ==
  /\ pc = "idle"
  /\ probe = NoProbe
  /\ \E in \in ProbeAccessibilityInputs, warn \in BOOLEAN :
       probe' = [kind |-> "accessibility", in |-> in,
                 includeWarnings |-> warn,
                 out |-> AccessibilityTesterRunTests(in, warn)]
  /\ UNCHANGED <<runVars, batch>>

\* calculateScore at two values of one range, and the scores object built
\* from the two values as first contentful paint and load time
CallCalculateScore ==
  /\ pc = "idle"
  /\ probe = NoProbe
  /\ \E x \in ScoreValues, y \in ScoreValues, r \in ScoreRanges :
       probe' = [kind |-> "calculateScore", x |-> x, y |-> y,
                 min |-> r[1], max |-> r[2],
                 fx |-> calculateScore(x, r[1], r[2]),
                 fy |-> calculateScore(y, r[1], r[2]),
                 scores |-> Scores(x, y)]
  /\ UNCHANGED <<runVars, batch>>

\* new PerformanceTester(browserManager, {thresholds}).runTests(url)
CallPerformanceTester ==
  /\ pc = "idle"
  /\ probe = NoProbe
  /\ \E in \in ProbePerformanceInputs, limits \in ProbeThresholdConfigs,
        b \in {"null", "handle"} :
       probe' = [kind |-> "performance", in |-> in, limits |-> limits,
                 browser |-> b,
                 out |-> PerformanceRunTests(in, b, limits)]
  /\ UNCHANGED <<runVars, batch>>

\* new FunctionalTester(browserManager).runTests() on a page
CallFunctionalTester ==
  /\ pc = "idle"
  /\ probe = NoProbe
  /\ \E pg \in FunctionalTesterPages :
       probe' = [kind |-> "functional", page |-> pg,
                 out |-> FunctionalRunTests(
                           [fault |-> FALSE, message |-> Undefined,
                            results |-> SubTestResults(pg)])]
  /\ UNCHANGED <<runVars, batch>>

MaxNodes == 11

\* numbers of DOM nodes on both sides of the limit of ten
NodeCounts == {0, 1, 10, MaxNodes}

\* _formatIssues on findings with their nodes
CallFormatIssues ==
  /\ pc = "idle"
  /\ probe = NoProbe
  /\ \E findings \in SeqsUpTo(RuleIds, MaxProbeFindings),
        severity \in {"error", "warning"} :
       \E counts \in [1..Len(findings) -> NodeCounts] :
         probe' = [kind |-> "formatIssues", findings |-> findings,
                   severity |-> severity, nodes |-> counts,
                   issues |-> _formatIssues(findings, severity),
                   elements |->
                     _formatIssuesElements(
                       [i \in 1..Len(findings) |-> NodeList(counts[i])])]
  /\ UNCHANGED <<runVars, batch>>

\* pages at one viewport: nothing found, findings within and beyond the
\* limit of ten, failing detectors, and the three calls that may throw
Fits ==
  PageAtViewport("ok", Check(FALSE, FALSE), Found(FALSE, 0), Found(FALSE, 0),
                 Found(FALSE, 0))
TooWide ==
  PageAtViewport("ok", Check(FALSE, TRUE), Found(FALSE, 2), Found(FALSE, 0),
                 Found(FALSE, 0))
SmallPrint ==
  PageAtViewport("ok", Check(FALSE, FALSE), Found(FALSE, 0), Found(FALSE, 10),
                 Found(FALSE, 1))
Crowded ==
  PageAtViewport("ok", Check(FALSE, TRUE), Found(FALSE, MaxNodes),
                 Found(FALSE, MaxNodes), Found(FALSE, MaxNodes))
DetectorsFail ==
  PageAtViewport("ok", Check(TRUE, TRUE), Found(TRUE, MaxNodes),
                 Found(TRUE, 3), Found(TRUE, 1))
OverflowCheckFails ==
  PageAtViewport("ok", Check(TRUE, TRUE), Found(FALSE, 2), Found(FALSE, 0),
                 Found(FALSE, 0))
StepFails(step) ==
  PageAtViewport(step, Check(FALSE, FALSE), Found(FALSE, 0), Found(FALSE, 0),
                 Found(FALSE, 0))

PagesAtViewport ==
  {Fits, TooWide, SmallPrint, Crowded, DetectorsFail, OverflowCheckFails}
  \cup { StepFails(s) : s \in {"setViewport", "waitForTimeout",
                               "takeScreenshot"} }

\* options.viewports: the configured list and shorter or reordered lists
ProbeViewportLists ==
  { <<>>, <<viewports[4]>>, <<viewports[3], viewports[4]>>,
    <<viewports[4], viewports[1], viewports[3]>>, viewports }

\* what the page does at each viewport of the list
ProbePages(vps) ==
  IF Len(vps) <= 3 THEN [1..Len(vps) -> PagesAtViewport]
  ELSE [1..Len(vps) -> {Fits, TooWide, DetectorsFail,
                        StepFails("takeScreenshot")}]

\* new ResponsiveTester(browserManager, {viewports}).runTests(url)
CallResponsiveTester ==
  /\ pc = "idle"
  /\ probe = NoProbe
  /\ \E vps \in ProbeViewportLists :
       \E raws \in ProbePages(vps) :
         \E m \in (IF \E k \in 1..Len(vps) : raws[k].step # "ok"
                   THEN ExceptionMessages ELSE {Undefined}) :
           LET call == ResponsiveTesterRunTests(raws, m, vps)
           IN probe' = [kind |-> "responsive", viewports |-> vps,
                        pages |-> raws, out |-> call.out,
                        resultsDefined |-> call.resultsDefined,
                        results |-> call.results,
                        elements |-> call.elements]
  /\ UNCHANGED <<runVars, batch>>

\* configuration files: none, the file init-config writes, and edits of it
NoCustomConfig == EmptyObject

MobileOnly == <<viewports[4]>>

FormsOnly == [defaultElementsToTest EXCEPT !.forms = "form"]

CustomConfigs ==
  {NoCustomConfig}
  \cup
  { [config EXCEPT !.viewports = v, !.performance = [thresholds |-> t],
                   !.defaultElementsToTest = e] :
      v \in {viewports, MobileOnly}, t \in ProbeThresholdConfigs,
      e \in {defaultElementsToTest, FormsOnly} }
  \cup
  { [performance |-> [thresholds |-> t]] : t \in ProbeThresholdConfigs }
  \cup
  { [viewports |-> MobileOnly], [defaultElementsToTest |-> FormsOnly] }

\* the test command with --config, or new TestRunner(customConfig), up to
\* the construction of the testers in runTests
CallTestCommand ==
  /\ pc = "idle"
  /\ probe = NoProbe
  /\ \E c \in CustomConfigs, via \in {"cli", "api"} :
       LET options == IF via = "cli"
                      THEN TestRunnerOptions(CliTestOptions(c))
                      ELSE TestRunnerOptions(c)
       IN probe' = [kind |-> "testCommand", via |-> via, customConfig |-> c,
                    options |-> options, testers |-> Testers(options)]
  /\ UNCHANGED <<runVars, batch>>

ProbeNext ==
  \/ CallAccessibilityTester
  \/ CallCalculateScore
  \/ CallPerformanceTester
  \/ CallFunctionalTester
  \/ CallTestCommand
  \/ CallFormatIssues
  \/ CallResponsiveTester

ProbeSpec == ProbeInit /\ [][ProbeNext]_vars

-----------------------------------------------------------------------------
(* One AccessibilityTester called repeatedly on the same loaded page        *)

MaxInvocations == 3

\* the loaded page, which may define window.axe itself, before the first call
LoadedPage(axe) ==
  [kind |-> "page", axe |-> axe, calls |-> 0, injections |-> 0,
   audits |-> 0, threw |-> FALSE, out |-> NoResult]

EngineInit ==
  /\ Idle
  /\ batch = NoBatch
  /\ \E axe \in BOOLEAN : probe = LoadedPage(axe)

\* one call of AccessibilityTester.runTests: _injectAxeCore, then the audit
\* unless the injection threw
InvokeAccessibility ==
  /\ pc = "idle"
  /\ probe.kind = "page"
  /\ probe.calls < MaxInvocations
  /\ \E outcome \in InjectOutcomes, in \in AccessibilityInputs :
       LET inject == _injectAxeCore(probe.axe, outcome)
       IN /\ (in.inject = "throws") <=> inject.threw
          /\ probe' =
               [kind |-> "page",
                axe |-> inject.axe,
                calls |-> probe.calls + 1,
                injections |->
                  probe.injections + (IF inject.evaluated THEN 1 ELSE 0),
                audits |-> probe.audits + (IF inject.threw THEN 0 ELSE 1),
                threw |-> inject.threw,
                out |-> AccessibilityRunTests(in)]
  /\ UNCHANGED <<runVars, batch>>

EngineNext == InvokeAccessibility

EngineSpec == EngineInit /\ [][EngineNext]_vars

-----------------------------------------------------------------------------
(* One BrowserManager driven directly: initialize and close in any order   *)

MaxManagerCalls == 3

\* await manager.initialize() on a manager that holds no browser; thrown
\* is the error the call rejected with
ManagerInitialize ==
  /\ pc = "idle"
  /\ browser = "null"
  /\ launchCalls < MaxManagerCalls
  /\ \E outcome \in InitializeOutcomes :
       /\ BrowserManagerInitialize(outcome)
       /\ IF outcome = "ok"
          THEN thrown' = Undefined
          ELSE \E m \in ExceptionMessages : thrown' = m
  /\ UNCHANGED <<url, pc, browserManager, gotoCalls, closeCalls,
                 browserCloseCalls, navigation, active, callLog, phaseIdx,
                 phaseResults, allIssues, summary, testResults, reportCalls,
                 result, thresholds, failure, batch, probe>>

\* await manager.close() in any state of the manager
ManagerClose ==
  /\ pc = "idle"
  /\ closeCalls < MaxManagerCalls
  /\ \E outcome \in CloseOutcomes :
       /\ BrowserManagerClose(outcome)
       /\ IF CloseThrows(outcome)
          THEN \E m \in ExceptionMessages : thrown' = m
          ELSE thrown' = Undefined
  /\ UNCHANGED <<url, pc, browserManager, launchCalls, gotoCalls, navigation,
                 active, callLog, phaseIdx, phaseResults, allIssues, summary,
                 testResults, reportCalls, result, thresholds, failure,
                 batch, probe>>

SessionNext ==
  \/ ManagerInitialize
  \/ ManagerClose

SessionSpec == ProbeInit /\ [][SessionNext]_vars

-----------------------------------------------------------------------------
(* The batch command: one TestRunner, runTests awaited for each URL        *)

MaxBatchUrls == 2

\* URLs given on the command line: one that parses and one that does not
BatchUrls ==
  { [scheme |-> "https", host |-> "example.com",
     text |-> "https://example.com"],
    [scheme |-> "", host |-> "example.com", text |-> "example.com"] }

\* value of url outside a call of runTests
NoUrl == [scheme |-> "", host |-> "", text |-> ""]

BatchInit ==
  /\ url = NoUrl
  /\ thresholds = DefaultThresholds
  /\ pc = "batch"
  /\ browserManager = "null"
  /\ browser = "null"
  /\ page = "null"
  /\ browserProcess = "none"
  /\ launchCalls = 0
  /\ gotoCalls = 0
  /\ closeCalls = 0
  /\ browserCloseCalls = 0
  /\ navigation = NoNavigation
  /\ active = {}
  /\ callLog = <<>>
  /\ phaseIdx = 1
  /\ phaseResults = [p \in Phases |-> NoResult]
  /\ thrown = Undefined
  /\ allIssues = <<>>
  /\ summary = NoSummary
  /\ testResults = NoTestResults
  /\ reportCalls = 0
  /\ result = NoReturn
  /\ failure = "none"
  /\ sessionsOpen = 0
  /\ \E urls \in SeqsUpTo(BatchUrls, MaxBatchUrls) :
       batch = [urls |-> urls, i |-> 1, results |-> <<>>,
                exitCode |-> Undefined]
  /\ probe = NoProbe

\* cli.js lines 208-212: the loop condition holds and runTests(urls[i]) is
\* called; the locals of runTests start afresh, the browsers of earlier
\* calls stay as they were left
BatchCallRunTests ==
  /\ pc = "batch"
  /\ batch.i <= Len(batch.urls)
  /\ url' = batch.urls[batch.i]
  /\ pc' = "validate"
  /\ browserManager' = "null"
  /\ browser' = "null"
  /\ page' = "null"
  /\ browserProcess' = "none"
  /\ launchCalls' = 0
  /\ gotoCalls' = 0
  /\ closeCalls' = 0
  /\ browserCloseCalls' = 0
  /\ navigation' = NoNavigation
  /\ active' = {}
  /\ callLog' = <<>>
  /\ phaseIdx' = 1
  /\ phaseResults' = [p \in Phases |-> NoResult]
  /\ thrown' = Undefined
  /\ allIssues' = <<>>
  /\ summary' = NoSummary
  /\ testResults' = NoTestResults
  /\ reportCalls' = 0
  /\ result' = NoReturn
  /\ failure' = "none"
  /\ UNCHANGED <<thresholds, sessionsOpen, batch, probe>>

\* cli.js lines 212-226: runTests returned, its result is pushed and the
\* loop index advances
BatchPushResult ==
  /\ pc = "returned"
  /\ batch' = [batch EXCEPT
                 !.results = Append(@, [url |-> url.text,
                                        success |-> result.success,
                                        error |-> result.error]),
                 !.i = @ + 1]
  /\ pc' = "batch"
  /\ UNCHANGED <<runVarsButPc, probe>>

\* cli.js lines 229-275: after the loop, process.exit(allSuccessful ? 0 : 1)
BatchExit ==
  /\ pc = "batch"
  /\ batch.i > Len(batch.urls)
  /\ batch' = [batch EXCEPT
                 !.exitCode =
                   IF \A k \in 1..Len(batch.results) : batch.results[k].success
                   THEN 0 ELSE 1]
  /\ pc' = "exited"
  /\ UNCHANGED <<runVarsButPc, probe>>

\* cli.js lines 276-279: runTests rejected inside the loop, the catch
\* block of the command prints the error and calls process.exit(1)
BatchCatch ==
  /\ pc = "rejected"
  /\ batch' = [batch EXCEPT !.exitCode = 1]
  /\ pc' = "exited"
  /\ UNCHANGED <<runVarsButPc, probe>>

\* The pages met in batch mode: a phase finds at most one issue, and the
\* driver fails with one message only
RepresentativePage ==
  /\ thrown # "Protocol error"
  /\ \A p \in Phases :
       /\ phaseResults[p].error # "Protocol error"
       /\ Len(IssuesOrEmpty(phaseResults[p])) <= 1

\* a step of the runTests call in progress
BatchRunStep == Next /\ RepresentativePage'

BatchNext ==
  \/ BatchCallRunTests
  \/ BatchRunStep
  \/ BatchPushResult
  \/ BatchExit
  \/ BatchCatch

BatchSpec == BatchInit /\ [][BatchNext]_vars


-----------------------------------------------------------------------------
(* Properties *)

Settled == pc \in {"returned", "rejected"}

navigationSuccess == navigation.kind = "response" /\ navigation.status < 400

navigationFailed ==
  \/ navigation.kind \in {"throws", "null"}
  \/ navigation.kind = "response" /\ navigation.status >= 400

IsPrefix(s, t) == Len(s) <= Len(t) /\ \A i \in 1..Len(s) : s[i] = t[i]

Calls(p) == Cardinality({ i \in 1..Len(callLog) : callLog[i] = p })

PhaseThrew(p) == phaseResults[p].error # Undefined

\* C1: whenever a BrowserManager was created, BrowserManager.close has been
\* called exactly once by the time runTests settles, and when runTests
\* returns the browser and page handles are released and no launched
\* browser is left running.
C1_SessionClosed ==
  /\ (Settled /\ browserManager = "created") => closeCalls = 1
  /\ pc = "returned" =>
       /\ browser = "null"
       /\ page = "null"
       /\ browserProcess # "running"

\* a run whose report generation threw has returned with its browser closed
C1_Witness ==
  /\ pc = "returned"
  /\ reportCalls = 1
  /\ result.error # Undefined
  /\ browserProcess = "closed"
  /\ closeCalls = 1

\* C2: once navigation has succeeded and the phase block is left, each of
\* the four phases has been called exactly once whatever subset of them
\* threw, and until the report generator is called no exception is in flight
\* and no error result exists.
C2_PhasesIsolated ==
  (navigationSuccess /\ pc # "phases" /\ pc # "navigate") =>
    /\ Len(callLog) = 4
    /\ \A p \in Phases : Calls(p) = 1
    /\ reportCalls = 0 => (thrown = Undefined /\ result.error = Undefined)

\* all four phases threw and the run still reached the report generator
C2_Witness ==
  /\ pc = "report"
  /\ \A p \in Phases : PhaseThrew(p)
  /\ Len(callLog) = 4

\* C3: after a navigation that threw, gave no response or gave a status
\* >= 400, no phase is ever called, the exception in flight is the one
\* runTests raises itself, the session's close is called before runTests
\* settles, and a returned result has success=false, an error and no results.
C3_NavigationFailure ==
  navigationFailed =>
    /\ callLog = <<>> /\ active = {}
    /\ pc \in {"catch", "finally", "returned", "rejected"}
    /\ pc = "catch" => thrown = "Failed to navigate"
    /\ reportCalls = 0 /\ ~testResults.built
    /\ Settled => closeCalls = 1
    /\ pc = "returned" =>
         /\ result = ErrorResult("Failed to navigate")
         /\ result.success = FALSE /\ ~result.hasResults
         /\ browser = "null" /\ browserProcess = "closed"

\* a run whose navigation got HTTP 400 has returned
C3_Witness ==
  /\ pc = "returned"
  /\ navigation.kind = "response" /\ navigation.status = 400
  /\ result.error = "Failed to navigate"

\* C4: for the urls "example.com", "/about" and "https://", which do not
\* parse as absolute URLs, no BrowserManager is created, nothing is
\* launched, navigated, run, reported or closed, and runTests returns
\* success=false with the error "Invalid URL".
C4_InvalidUrl ==
  (url.text \in {"example.com", "/about", "https://"} /\ pc # "validate") =>
    /\ browserManager = "null" /\ browser = "null"
    /\ launchCalls = 0 /\ gotoCalls = 0 /\ closeCalls = 0
    /\ callLog = <<>> /\ reportCalls = 0
    /\ pc \in {"catch", "finally", "returned"}
    /\ pc = "returned" => (result = ErrorResult("Invalid URL")
                            /\ result.success = FALSE)

\* the run for "https://" has returned
C4_Witness ==
  /\ pc = "returned"
  /\ url.text = "https://"
  /\ result.error = "Invalid URL"

\* C5 as claimed: the phases are called in the order functional,
\* responsive, performance, accessibility.
C5_AsClaimed ==
  IsPrefix(callLog,
           <<"functional", "responsive", "performance", "accessibility">>)

\* C5 amended: the phases are called one after another in the order
\* accessibility, functional, performance, responsive; a phase is called
\* only when every earlier one has returned, and at most one is active.
C5_Sequential ==
  /\ IsPrefix(callLog,
              <<"accessibility", "functional", "performance", "responsive">>)
  /\ Cardinality(active) <= 1
  /\ Len(callLog) = (phaseIdx - 1) + Cardinality(active)
  /\ \A i \in 1..Len(callLog) :
       i < Len(callLog) => callLog[i] \notin active

\* the fourth phase is running after the first three returned
C5_Witness ==
  /\ active = {"responsive"}
  /\ callLog = <<"accessibility", "functional", "performance", "responsive">>
  /\ phaseIdx = 4

\* C6 as claimed: the issue list is the concatenation in the order
\* functional, responsive, performance, accessibility.
C6_AsClaimed ==
  testResults.built =>
    allIssues = IssuesOrEmpty(phaseResults["functional"])
                  \o IssuesOrEmpty(phaseResults["responsive"])
                  \o IssuesOrEmpty(phaseResults["performance"])
                  \o IssuesOrEmpty(phaseResults["accessibility"])

\* C6 amended: the issue list of the result is the concatenation of the
\* phases' issue lists in the order accessibility, functional, performance,
\* responsive, each list kept in its own order, and a phase result with no
\* issues field contributes nothing.
C6_Concatenation ==
  testResults.built =>
    LET a == phaseResults["accessibility"]
        f == phaseResults["functional"]
        q == phaseResults["performance"]
        r == phaseResults["responsive"]
        part(x) == IF x.issuesDefined THEN x.issues ELSE <<>>
    IN /\ allIssues = part(a) \o part(f) \o part(q) \o part(r)
       /\ testResults.issues = allIssues
       /\ Len(allIssues) = Len(part(a)) + Len(part(f)) + Len(part(q))
                             + Len(part(r))

\* a result built from an accessibility phase with no issues field and
\* three phases that each reported issues
C6_Witness ==
  /\ testResults.built
  /\ ~phaseResults["accessibility"].issuesDefined
  /\ Len(phaseResults["functional"].issues) = 2
  /\ Len(phaseResults["performance"].issues) >= 2
  /\ Len(phaseResults["responsive"].issues) >= 2
  /\ Len(allIssues) >= 6

\* the "<Phase> Test Error" type of each phase
TestErrorType(p) ==
  CASE p = "accessibility" -> "Accessibility Test Error"
    [] p = "functional" -> "Functional Test Error"
    [] p = "performance" -> "Performance Test Error"
    [] p = "responsive" -> "Responsive Test Error"

\* C7: a phase whose runTests caught an exception returns success=false
\* with exactly one issue, of type "<Phase> Test Error" and severity error,
\* whose description is the exception message.
C7_PhaseErrorIssue ==
  \A p \in Phases :
    PhaseThrew(p) =>
      /\ phaseResults[p].success = FALSE
      /\ phaseResults[p].issuesDefined
      /\ Len(phaseResults[p].issues) = 1
      /\ phaseResults[p].issues[1] =
           Issue(TestErrorType(p), phaseResults[p].error, "error")

\* C8: the summary of every built result has totalTests = 4, passedTests is
\* the number of phases with success=true, failedTests the number with
\* success=false, and they add up to 4.
C8_Summary ==
  testResults.built =>
    /\ summary.totalTests = 4
    /\ summary.passedTests
         = Cardinality({ p \in Phases : phaseResults[p].success })
    /\ summary.failedTests
         = Cardinality({ p \in Phases : ~phaseResults[p].success })
    /\ summary.passedTests + summary.failedTests = 4
    /\ testResults.summary = summary

\* a summary where a phase failed without throwing
C8_Witness ==
  /\ testResults.built
  /\ summary.failedTests = 2
  /\ summary.passedTests = 2
  /\ \A p \in Phases : ~PhaseThrew(p)

\* C9: a returned run result has success=true exactly when its aggregated
\* issue list is empty, warnings counting like errors; an error result has
\* success=false.
C9_RunSuccess ==
  pc \in {"finally", "returned", "rejected"} =>
    /\ result.hasResults =>
         (result.success <=> Len(testResults.issues) = 0)
    /\ ~result.hasResults => ~result.success

\* every phase passed, the only issues are warnings, and the run failed
C9_Witness ==
  /\ pc = "returned"
  /\ result.hasResults
  /\ summary.passedTests = 4
  /\ Len(allIssues) > 0
  /\ \A i \in 1..Len(allIssues) : allIssues[i].severity = "warning"
  /\ ~result.success

\* C10: runTests never rejects.
C10_NeverRejects == pc # "rejected"

\* C11 as claimed: the returned result carries a run-level error field
\* exactly when URL validation failed or navigation failed.
C11_AsClaimed ==
  pc = "returned" =>
    (result.error # Undefined <=> (~URLParses(url) \/ navigationFailed))

\* C11: the returned result carries a run-level error field exactly when
\* URL validation, browser initialization, navigation or report generation
\* failed; an exception inside a phase never produces one.
C11_RunLevelError ==
  pc = "returned" =>
    /\ result.error # Undefined <=> failure # "none"
    /\ failure \in {"none", "validate", "initialize", "navigate", "report"}
    /\ failure = "validate" <=> ~URLParses(url)
    /\ failure = "initialize" <=> (launchCalls = 1 /\ gotoCalls = 0)
    /\ failure = "navigate" <=> navigationFailed
    /\ failure = "report" <=> (reportCalls = 1 /\ ~result.hasResults)

\* the browser could not be initialized and the result carries the error
C11_Witness ==
  /\ pc = "returned"
  /\ failure = "initialize"
  /\ result.error \in ExceptionMessages

ScoresInRange(s) ==
  /\ s.defined
  /\ \A i \in 1..Len(Categories) :
       0 <= s[Categories[i]] /\ s[Categories[i]] <= ScoreScale

\* C12 as claimed: every run result that reaches report generation has the
\* four scores in [0,1], whatever the outcome of the Performance phase.
C12_AsClaimed == testResults.built => ScoresInRange(testResults.performance)

\* C12: a run result that reaches report generation has the four scores in
\* [0,1] when the Performance phase completed without exception, and has
\* no scores at all when that phase failed with an exception.
C12_ScoresWhenMeasured ==
  testResults.built =>
    IF PhaseThrew("performance")
    THEN ~testResults.performance.defined
    ELSE ScoresInRange(testResults.performance)

\* a measured run with a blended performance score strictly inside (0,1)
C12_Witness ==
  /\ pc = "report"
  /\ ~PhaseThrew("performance")
  /\ testResults.performance.defined
  /\ 0 < testResults.performance.performance
  /\ testResults.performance.performance < ScoreScale

Returned(p) == Calls(p) = 1 /\ p \notin active

WarningsOnly(r) ==
  /\ r.error = Undefined
  /\ r.issuesDefined
  /\ Len(r.issues) > 0
  /\ \A i \in 1..Len(r.issues) : r.issues[i].severity = "warning"

CountWhere(issues, Test(_)) ==
  Cardinality({ i \in 1..Len(issues) : Test(issues[i]) })

IsError(issue) == issue.severity = "error"
IsWarning(issue) == issue.severity = "warning"

AuditCompleted ==
  /\ probe.kind = "accessibility"
  /\ probe.in.inject = "ok"
  /\ probe.in.audit = "ok"

\* C14: when the audit completes, success is true exactly when there is no
\* violation, whatever the incomplete findings; every violation yields one
\* error issue, every incomplete finding one warning issue when
\* includeWarnings is true and none when it is false, and the issues are
\* what the phase contributes to the aggregated list.
C14_ViolationsOnly ==
  AuditCompleted =>
    /\ probe.out.success <=> Len(probe.in.violations) = 0
    /\ probe.out.error = Undefined
    /\ CountWhere(probe.out.issues, IsError) = Len(probe.in.violations)
    /\ CountWhere(probe.out.issues, IsWarning) =
         (IF probe.includeWarnings THEN Len(probe.in.incomplete) ELSE 0)
    /\ Len(probe.out.issues) =
         CountWhere(probe.out.issues, IsError)
           + CountWhere(probe.out.issues, IsWarning)
    /\ CollectIssues([p \in Phases |->
                        IF p = "accessibility" THEN probe.out ELSE NoResult])
         = probe.out.issues

\* Scenario E: no violation, two incomplete findings, includeWarnings=true
C14_Witness ==
  /\ AuditCompleted
  /\ probe.includeWarnings
  /\ Len(probe.in.violations) = 0
  /\ Len(probe.in.incomplete) = 2
  /\ probe.out.success
  /\ CountWhere(probe.out.issues, IsWarning) = 2

InUnit(v) == 0 <= v /\ v <= ScoreScale

\* C15: calculateScore(x, min, max) lies in [0,1], does not increase when x
\* grows, is 1 for x <= min and 0 for x >= max, and the blended performance
\* score lies in [0,1].
C15_ScoreFunction ==
  probe.kind = "calculateScore" =>
    /\ InUnit(probe.fx)
    /\ probe.x <= probe.y => probe.fx >= probe.fy
    /\ probe.x <= probe.min => probe.fx = ScoreScale
    /\ probe.x >= probe.max => probe.fx = 0
    /\ InUnit(probe.scores.performance)

\* two values strictly inside the range with strictly decreasing scores
C15_Witness ==
  /\ probe.kind = "calculateScore"
  /\ probe.min < probe.x
  /\ probe.x < probe.y
  /\ probe.y < probe.max
  /\ probe.fy < probe.fx
  /\ 0 < probe.fy
  /\ probe.fx < ScoreScale

PerformanceCompleted ==
  /\ probe.kind = "performance"
  /\ probe.out.error = Undefined

One(cond) == IF cond THEN 1 ELSE 0

Occurrences(issues, issue) ==
  Cardinality({ i \in 1..Len(issues) : issues[i] = issue })

\* C16: a completed Performance phase reports "Slow Page Load" exactly when
\* loadTime > 3000, "Slow First Contentful Paint" exactly when
\* firstContentfulPaintTime > 2000, "Large Page Size" exactly when the
\* transfer size exceeds 3 MiB, "Too Many Resources" exactly when there are
\* more than 80 resources, and one "Performance Issue" for each category
\* whose score is strictly below its threshold; it reports nothing else,
\* every issue is a warning, and success is true exactly when there is no
\* issue.
C16_PerformanceIssues ==
  PerformanceCompleted =>
    LET in == probe.in
        issues == probe.out.issues
        below == { c \in {"performance", "accessibility", "bestPractices",
                          "seo"} :
                     probe.out.scores[c] < probe.limits[c] }
    IN /\ Occurrences(issues, SlowPageLoad) = One(in.loadTime > 3000)
       /\ Occurrences(issues, SlowFirstContentfulPaint) =
            One(in.firstContentfulPaintTime > 2000)
       /\ Occurrences(issues, LargePageSize) =
            One(in.totalResourceSize > 3 * 1024 * 1024)
       /\ Occurrences(issues, TooManyResources) = One(in.totalResources > 80)
       /\ \A c \in {"performance", "accessibility", "bestPractices", "seo"} :
            Occurrences(issues, PerformanceIssue(c)) = One(c \in below)
       /\ Len(issues) =
            One(in.loadTime > 3000) + One(in.firstContentfulPaintTime > 2000)
              + One(in.totalResourceSize > 3 * 1024 * 1024)
              + One(in.totalResources > 80) + Cardinality(below)
       /\ CountWhere(issues, IsWarning) = Len(issues)
       /\ probe.out.success <=> Len(issues) = 0

\* every rule fires at once: four metric issues and four category issues
C16_Witness ==
  /\ PerformanceCompleted
  /\ Len(probe.out.issues) = 8
  /\ ~probe.out.success

ScenarioB ==
  /\ probe.kind = "performance"
  /\ probe.browser = "handle"
  /\ ~probe.in.fault
  /\ probe.in.loadTime = 4000
  /\ probe.in.firstContentfulPaintTime = 1500
  /\ probe.in.totalResources = 50
  /\ probe.in.totalResourceSize = 1000000

\* C17 as claimed: Scenario B returns exactly one issue, "Slow Page Load",
\* and success=false.
C17_AsClaimed ==
  ScenarioB => probe.out.issues = <<SlowPageLoad>> /\ ~probe.out.success

IsPerformanceIssue(issue) == issue.type = "Performance Issue"

\* C17: Scenario B returns success=false and "Slow Page Load" as its only
\* metric issue, followed by one "Performance Issue" per category whose
\* score is below its threshold; the blended performance score is 0.6, so
\* under the default thresholds there are three issues, and there is
\* exactly one issue only when no threshold exceeds its category's score.
C17_ScenarioB ==
  ScenarioB =>
    LET issues == probe.out.issues
    IN /\ ~probe.out.success
       /\ issues[1] = SlowPageLoad
       /\ CountWhere(issues, IsPerformanceIssue) = Len(issues) - 1
       /\ probe.out.scores.performance = (ScoreScale * 6) \div 10
       /\ probe.limits = DefaultThresholds =>
            issues = <<SlowPageLoad, PerformanceIssue("performance"),
                       PerformanceIssue("accessibility")>>
       /\ Len(issues) = 1 <=>
            \A i \in 1..Len(Categories) :
              probe.out.scores[Categories[i]] >= probe.limits[Categories[i]]

\* Scenario B under the default thresholds: three issues
C17_Witness ==
  /\ ScenarioB
  /\ probe.limits = DefaultThresholds
  /\ Len(probe.out.issues) = 3

\* a page whose only form container has no submit control and one required
\* input without a label, the rest of the page giving no issue
ScenarioA ==
  /\ probe.kind = "functional"
  /\ Len(probe.page.containers) = 1
  /\ ~probe.page.containers[1].submit
  /\ Len(probe.page.containers[1].inputs) = 1
  /\ probe.page.containers[1].inputs[1].required
  /\ ~probe.page.containers[1].inputs[1].labelled
  /\ probe.page.containers[1].inputs[1].interactable
  /\ \A t \in {"navigation", "buttons", "links", "images"} :
       IssuesOrEmpty(probe.page.rest[t]) = <<>>

IsInputMissingLabel(issue) ==
  issue.type = "Input Missing Label" /\ issue.severity = "warning"

\* C18: on a Scenario A page the Functional phase returns exactly two
\* issues, one error "Form Missing Submit" and one warning "Input Missing
\* Label", with success=false.
C18_ScenarioA ==
  ScenarioA =>
    /\ Len(probe.out.issues) = 2
    /\ Occurrences(probe.out.issues, FormMissingSubmit) = 1
    /\ CountWhere(probe.out.issues, IsInputMissingLabel) = 1
    /\ ~probe.out.success


\* C19: BrowserManager.close is safe in every state: called when
\* initialize was never called or never completed (no page was opened) it
\* changes nothing and does not fail, and called after a successful close
\* it does not close the browser again and leaves browser and page unset.
C19_CloseIdempotent ==
  [][closeCalls' = closeCalls + 1 =>
       /\ page = "null" =>
            /\ UNCHANGED <<browser, page, browserProcess, browserCloseCalls>>
            /\ thrown' = Undefined
       /\ browser = "null" =>
            /\ browserCloseCalls' = browserCloseCalls
            /\ browser' = "null"
            /\ page' = "null"]_vars

\* C20: in batch mode at most one browser is open at any time, none is
\* open when the next runTests call starts, and when the command exits
\* every URL of the list has been run once, in list order.
C20_BatchSequential ==
  /\ sessionsOpen <= 1
  /\ pc \in {"batch", "validate", "initialize"} => sessionsOpen = 0
  /\ Len(batch.results) <= Len(batch.urls)
  /\ \A k \in 1..Len(batch.results) :
       batch.results[k].url = batch.urls[k].text
  /\ pc = "exited" => Len(batch.results) = Len(batch.urls)


-----------------------------------------------------------------------------
\* C21: the viewport list, the performance thresholds and the element
\* selectors of a configuration passed with --config or as TestRunner options
\* are the values the Responsive, Performance and Functional testers of the
\* run are constructed with.
C21_CustomConfigUsed ==
  probe.kind = "testCommand" =>
    LET c == probe.customConfig
    IN /\ "viewports" \in DOMAIN c =>
            probe.testers.responsive.viewports = c.viewports
       /\ "performance" \in DOMAIN c =>
            probe.testers.performance.thresholds = c.performance.thresholds
       /\ "defaultElementsToTest" \in DOMAIN c =>
            probe.testers.functional.elementsToTest = c.defaultElementsToTest

-----------------------------------------------------------------------------
\* the session fields and the counters of the calls that open and close it
session == <<browserManager, browser, page, browserProcess, launchCalls,
             closeCalls, browserCloseCalls, sessionsOpen>>

\* initialized, navigated, not yet closed
SessionOpen ==
  /\ browserManager = "created"
  /\ browser = "handle"
  /\ page = "handle"
  /\ browserProcess = "running"
  /\ launchCalls = 1
  /\ navigationSuccess
  /\ closeCalls = 0
  /\ browserCloseCalls = 0

\* C22: the session is open from the call of every phase until the phase
\* has returned, no step of a phase changes the session or calls initialize
\* or close, and the session is created and closed only by the statements of
\* runTests outside the phases.
C22_SessionBorrowed ==
  /\ [](active # {} => SessionOpen)
  /\ [][(active # {} \/ active' # {}) =>
          (SessionOpen /\ SessionOpen' /\ UNCHANGED session)]_vars
  /\ [][(session' # session) =>
          (active = {} /\ pc \in {"validate", "initialize", "finally"})]_vars

C22_Witness ==
  /\ active = {"responsive"}
  /\ Returned("accessibility")
  /\ Returned("functional")
  /\ Returned("performance")
  /\ phaseResults["performance"].scores # NoScores

-----------------------------------------------------------------------------
\* all four phases have returned and allIssues, summary and testResults
\* have been computed from their results
Aggregated ==
  /\ \A p \in Phases : Returned(p)
  /\ testResults.built
  /\ summary = Summary(phaseResults)
  /\ allIssues = CollectIssues(phaseResults)

\* C23: generateReport is called at most once in a run; when it is called
\* the four phases have returned, the summary has been computed and close has
\* not been called; it is not called in a run that failed at URL validation,
\* initialization or navigation.
C23_ReportOnce ==
  /\ [](reportCalls <= 1)
  /\ [][reportCalls' # reportCalls =>
          /\ reportCalls' = 1
          /\ Aggregated
          /\ SessionOpen
          /\ closeCalls' = 0]_vars
  /\ [](failure \in {"validate", "initialize", "navigate"} =>
          reportCalls = 0)
  /\ [](Settled /\ reportCalls = 1 => closeCalls = 1)

C23_Witness ==
  /\ pc = "returned"
  /\ reportCalls = 1
  /\ closeCalls = 1
  /\ result.hasReportPaths

-----------------------------------------------------------------------------
\* C27: every phase that returned success=false has at least one issue, and
\* a run result whose summary counts a failed phase has a non-empty issue
\* list and success=false.
C27_FailedPhaseHasIssue ==
  /\ \A p \in Phases :
       (Returned(p) /\ ~phaseResults[p].success) =>
         Len(IssuesOrEmpty(phaseResults[p])) >= 1
  /\ (pc = "returned" /\ result.hasResults /\ summary.failedTests > 0) =>
       (Len(allIssues) > 0 /\ ~result.success)

-----------------------------------------------------------------------------
\* a phase result with success=true and no issue
NothingWrong(r) ==
  /\ r.error = Undefined
  /\ r.success
  /\ IssuesOrEmpty(r) = <<>>

IsMetricIssue(issue) ==
  issue \in {SlowPageLoad, SlowFirstContentfulPaint, LargePageSize,
             TooManyResources}

\* a run under the default thresholds that navigated, measured a load time
\* of at most 2000 ms and a first contentful paint of at most 1000 ms (both
\* timing scores are 1), raised no metric issue, found nothing in the other
\* three phases, and wrote its report
CleanRun ==
  /\ pc = "returned"
  /\ thresholds = DefaultThresholds
  /\ navigationSuccess
  /\ result.hasResults
  /\ NothingWrong(phaseResults["accessibility"])
  /\ NothingWrong(phaseResults["functional"])
  /\ NothingWrong(phaseResults["responsive"])
  /\ phaseResults["performance"].error = Undefined
  /\ phaseResults["performance"].scores # NoScores
  /\ phaseResults["performance"].scores.performance = ScoreScale
  /\ CountWhere(phaseResults["performance"].issues, IsMetricIssue) = 0

\* C28: under the default configuration, a run in which navigation succeeds
\* and no phase finds anything wrong returns success=true with
\* passedTests = 4 and failedTests = 0.
C28_CleanRunPasses ==
  CleanRun =>
    /\ result.success
    /\ summary.passedTests = 4
    /\ summary.failedTests = 0

-----------------------------------------------------------------------------
\* browser.close() was called by BrowserManager.close and threw: the
\* handles are still set after the call
CloseFailed == browserCloseCalls = 1 /\ browser = "handle"

\* C30: when the close of the session fails during cleanup, runTests still
\* returns the result computed before the cleanup (the run result or the
\* success=false error result) and does not reject.
C30_CloseFailureKeepsResult ==
  (Settled /\ CloseFailed) =>
    /\ pc = "returned"
    /\ result # NoReturn
    /\ result.hasResults \/ (~result.success /\ result.error # Undefined)

-----------------------------------------------------------------------------
\* C24: over the calls of the Accessibility phase on one loaded page, the
\* axe script is evaluated only while window.axe is undefined and at most
\* once with success, the audit runs only with window.axe defined, and a
\* call whose injection throws returns success=false with the error and
\* runs no audit.
C24_InjectOnce ==
  /\ [][probe'.injections # probe.injections => ~probe.axe]_vars
  /\ [][probe.axe => (probe'.axe /\ probe'.injections = probe.injections)]_vars
  /\ [][probe'.audits # probe.audits => probe'.axe]_vars
  /\ [][probe'.threw =>
          /\ probe'.audits = probe.audits
          /\ ~probe'.out.success
          /\ probe'.out.error # Undefined
          /\ ~probe'.out.issuesDefined]_vars

\* a second call found the engine injected by the first and ran the audit
\* without injecting
C24_Witness ==
  /\ probe.kind = "page"
  /\ probe.calls = MaxInvocations
  /\ probe.injections = 1
  /\ probe.audits >= 2
  /\ probe.axe
  /\ ~probe.threw

-----------------------------------------------------------------------------
\* C25: the elements list of every issue of the Responsive phase and of
\* every issue built by _formatIssues of the Accessibility phase has at most
\* ten entries, whatever the number of DOM nodes found.
C25_ElementsBounded ==
  probe.kind \in {"responsive", "formatIssues"} =>
    /\ Len(probe.elements) =
         Len(IF probe.kind = "responsive" THEN probe.out.issues
             ELSE probe.issues)
    /\ \A i \in 1..Len(probe.elements) : Len(probe.elements[i].items) <= 10


-----------------------------------------------------------------------------
\* a direct call of ResponsiveTester.runTests that did not reach its catch
\* block
ResponsiveCompleted == probe.kind = "responsive" /\ probe.resultsDefined

DetectorTypes ==
  {"Horizontal Overflow", "Overflowing Elements", "Tiny Text",
   "Overlapping Elements"}

\* index in the viewport list of the viewport an issue was raised for
ViewportOf(issue, vps) ==
  CHOOSE k \in 1..Len(vps) : vps[k].name = issue.description

IsHorizontalOverflow(issue) ==
  issue.type = "Horizontal Overflow" /\ issue.severity = "error"

NoFinding(r) ==
  /\ ~r.hasHorizontalOverflow
  /\ r.overflowingElementsCount = 0
  /\ r.tinyTextElementsCount = 0
  /\ r.overlappingElementsCount = 0

\* C26: when the Responsive phase completes without exception, results has
\* one entry per configured viewport in configuration order, every viewport
\* has at most one issue of each of the four detectors, the issues are in
\* viewport order, the number of "Horizontal Overflow" errors is the number
\* of viewports whose overflow check was true, and success is true iff no
\* viewport produced an issue.
C26_ResponsiveResults ==
  ResponsiveCompleted =>
    LET vps == probe.viewports
        issues == probe.out.issues
        results == probe.results
    IN /\ Len(results) = Len(vps)
       /\ \A k \in 1..Len(vps) : results[k].viewport = vps[k]
       /\ \A i \in 1..Len(issues) :
            /\ issues[i].type \in DetectorTypes
            /\ \E k \in 1..Len(vps) : vps[k].name = issues[i].description
       /\ \A i, j \in 1..Len(issues) :
            (i # j /\ issues[i].description = issues[j].description) =>
              issues[i].type # issues[j].type
       /\ \A i, j \in 1..Len(issues) :
            i < j => ViewportOf(issues[i], vps) <= ViewportOf(issues[j], vps)
       /\ CountWhere(issues, IsHorizontalOverflow) =
            Cardinality({ k \in 1..Len(vps) :
                            results[k].hasHorizontalOverflow })
       /\ probe.out.success <=> Len(issues) = 0
       /\ probe.out.success <=> \A k \in 1..Len(vps) : NoFinding(results[k])
       /\ probe.out.error = Undefined

\* three viewports, the first and the last with all four issues
C26_Witness ==
  /\ ResponsiveCompleted
  /\ Len(probe.viewports) = 3
  /\ Len(probe.out.issues) = 8
  /\ NoFinding(probe.results[2])
  /\ ~probe.out.success

-----------------------------------------------------------------------------
\* setViewport, waitForTimeout or takeScreenshot threw at some viewport
StepThrew ==
  \E k \in 1..Len(probe.viewports) : probe.pages[k].step # "ok"

HasIssue(type, viewport) ==
  \E i \in 1..Len(probe.out.issues) :
    /\ probe.out.issues[i].type = type
    /\ probe.out.issues[i].description = viewport.name

\* C29: when the resize, the wait or the screenshot of some viewport throws,
\* the Responsive phase returns success=false with the single issue
\* "Responsive Test Error" carrying the message and without results,
\* whatever was found at earlier viewports; when only in-page detectors fail
\* the phase completes over all viewports and a failed detector counts as
\* no finding at its viewport.
C29_ResponsiveException ==
  probe.kind = "responsive" =>
    /\ StepThrew =>
         /\ ~probe.out.success
         /\ probe.out.error \in ExceptionMessages
         /\ probe.out.issues =
              <<Issue("Responsive Test Error", probe.out.error, "error")>>
         /\ ~probe.resultsDefined
         /\ probe.results = <<>>
    /\ ~StepThrew =>
         /\ probe.resultsDefined
         /\ probe.out.error = Undefined
         /\ Len(probe.results) = Len(probe.viewports)
         /\ \A k \in 1..Len(probe.viewports) :
              LET pg == probe.pages[k]
                  r == probe.results[k]
                  v == probe.viewports[k]
              IN /\ pg.overflow.fails =>
                      (~r.hasHorizontalOverflow
                       /\ ~HasIssue("Horizontal Overflow", v))
                 /\ pg.overflowing.fails =>
                      (r.overflowingElementsCount = 0
                       /\ ~HasIssue("Overflowing Elements", v))
                 /\ pg.tiny.fails =>
                      (r.tinyTextElementsCount = 0
                       /\ ~HasIssue("Tiny Text", v))
                 /\ pg.overlapping.fails =>
                      (r.overlappingElementsCount = 0
                       /\ ~HasIssue("Overlapping Elements", v))

\* the screenshot of the second of three viewports throws after the first
\* viewport had findings of all four detectors
C29_Witness ==
  /\ probe.kind = "responsive"
  /\ Len(probe.viewports) = 3
  /\ probe.pages[1] = Crowded
  /\ probe.pages[2].step = "takeScreenshot"
  /\ probe.pages[3] = DetectorsFail
  /\ Len(probe.out.issues) = 1
====
